---------------------------- MODULE Spec2Model ----------------------------
(***************************************************************************)
(* A model of the iabconsent package: the ConsentReader (a cursor over a   *)
(* bit stream), Parse (the fixed layout of a Vendor Consent String) and    *)
(* the queries of ParsedConsent.                                           *)
(*                                                                         *)
(* Representation.                                                         *)
(*   - A Go string / []byte is a sequence of byte codes (0..255).          *)
(*   - The reader's bitmap is a sequence of bits (0/1), most significant   *)
(*     bit of each byte first.                                             *)
(*   - A uint64 of up to 36 bits is a pair <<hi, lo>> of two 18-bit limbs  *)
(*     (value = hi * 2^18 + lo): the 36-bit timestamps do not fit the      *)
(*     model checker's 32-bit integers.                                    *)
(*   - A map[int]bool that only ever stores true is [nil, keys]; a slice   *)
(*     is [nil, elems]; the zero value of both has nil = TRUE.             *)
(*   - A time.Time is [sec (limbs), nsec, loc].                            *)
(***************************************************************************)
EXTENDS Integers, Sequences, FiniteSets, TLC

VARIABLES
    input,   \* the string handed to Parse
    pc,      \* position in Parse (the statement about to run), or a harness state
    src,     \* the bitmap of the ConsentReader r
    pos,     \* the read cursor of r: the number of bits consumed
    p,       \* the named result p of Parse (*ParsedConsent)
    err,     \* the named result err of Parse
    ret,     \* the last call made on the record or the reader, with its result
    iter,    \* the loop counter i of ReadRangeEntries / ReadBitField
    local    \* the local that loop fills: ret of ReadRangeEntries, m of ReadBitField

vars == <<input, pc, src, pos, p, err, ret, iter, local>>

----------------------------------------------------------------------------
(* Limb arithmetic for unsigned values of up to 36 bits.                    *)

LimbBits == 9 * 2
Limb == 2 ^ LimbBits

Min(a, b) == IF a < b THEN a ELSE b
Max(a, b) == IF a < b THEN b ELSE a

\* int64 division and remainder by a small divisor d, on limbs.
DivSmall(w, d) ==
    LET carry == (w[1] % d) * Limb + w[2]
    IN  <<w[1] \div d, carry \div d>>

ModSmall(w, d) == ((w[1] % d) * Limb + w[2]) % d

\* w * m + a renormalised to limbs (m, a small); used to state results only.
MulAddSmall(w, m, a) ==
    LET low == w[2] * m + a
    IN  <<w[1] * m + (low \div Limb), low % Limb>>

\* int(uint64): the value as one integer (fits for widths up to 30 bits).
ToInt(w) == w[1] * Limb + w[2]

ToLimbs(n) == <<n \div Limb, n % Limb>>

----------------------------------------------------------------------------
(* encoding/base64: RawURLEncoding.DecodeString.                            *)

\* The URL-safe alphabet: 'A'..'Z' 'a'..'z' '0'..'9' '-' '_'; -1: not in it.
DecodeChar(c) ==
    IF c >= 65 /\ c <= 90 THEN c - 65
    ELSE IF c >= 97 /\ c <= 122 THEN c - 97 + 26
    ELSE IF c >= 48 /\ c <= 57 THEN c - 48 + 52
    ELSE IF c = 45 THEN 62
    ELSE IF c = 95 THEN 63
    ELSE -1

\* The 8 bits of byte x (0..255), most significant first.
ByteBits(x) == [i \in 1..8 |-> (x \div (2 ^ (8 - i))) % 2]

\* The 6 bits of sextet x (0..63), most significant first.
SextetBits(x) == [i \in 1..6 |-> (x \div (2 ^ (6 - i))) % 2]

\* The concatenation of the chunks of ss, each w long.
Flatten(ss, w) == [i \in 1..(w * Len(ss)) |-> ss[((i - 1) \div w) + 1][((i - 1) % w) + 1]]

\* Unpadded decoding: every character must be of the alphabet, a final
\* quantum of one character is corrupt, a final quantum of 2 or 3 characters
\* yields 1 or 2 bytes and drops its low bits (no strict mode).
DecodeString(s) ==
    IF \E i \in 1..Len(s) : DecodeChar(s[i]) = -1 THEN
        [err |-> "CorruptInputError", bytes |-> <<>>]
    ELSE IF Len(s) % 4 = 1 THEN
        [err |-> "CorruptInputError", bytes |-> <<>>]
    ELSE
        LET bits   == Flatten([i \in 1..Len(s) |-> SextetBits(DecodeChar(s[i]))], 6)
            nbytes == (6 * Len(s)) \div 8
            byteAt(k) ==
                LET o == 8 * (k - 1)
                IN  128 * bits[o + 1] + 64 * bits[o + 2] + 32 * bits[o + 3]
                    + 16 * bits[o + 4] + 8 * bits[o + 5] + 4 * bits[o + 6]
                    + 2 * bits[o + 7] + bits[o + 8]
        IN  [err |-> "nil", bytes |-> [k \in 1..nbytes |-> byteAt(k)]]

----------------------------------------------------------------------------
(* ConsentReader.  Every read takes the bitmap b and the cursor at (bits    *)
(* consumed so far) and returns [ok, val, pos]: ok = FALSE is the panic of  *)
(* a read past the end of the bitmap, pos the cursor after the read.        *)

NewConsentReader(bytes) == Flatten([k \in 1..Len(bytes) |-> ByteBits(bytes[k])], 8)

Panicked(at) == [ok |-> FALSE, val |-> 0, pos |-> at]

RECURSIVE Accumulate(_, _, _, _)
Accumulate(b, at, n, acc) ==
    IF n = 0 THEN acc ELSE Accumulate(b, at + 1, n - 1, 2 * acc + b[at + 1])

\* The next n bits as an unsigned big-endian value, in limbs.
ReadBits(b, at, n) ==
    IF at + n > Len(b) THEN Panicked(at)
    ELSE LET nhi == Max(n - LimbBits, 0)
         IN  [ok  |-> TRUE,
              val |-> <<Accumulate(b, at, nhi, 0), Accumulate(b, at + nhi, n - nhi, 0)>>,
              pos |-> at + n]

ReadBool(b, at) ==
    LET x == ReadBits(b, at, 1)
    IN  IF x.ok THEN [x EXCEPT !.val = (ToInt(x.val) # 0)] ELSE x

\* A faulty variant: the bits are taken least significant first.
ReadIntLowBitFirst(b, at, n) ==
    IF at + n > Len(b) THEN Panicked(at)
    ELSE [ok  |-> TRUE,
          val |-> Accumulate([i \in 1..n |-> b[at + n + 1 - i]], 0, n, 0),
          pos |-> at + n]

ReadInt(b, at, n) ==
    LET x == ReadBits(b, at, n)
    IN  IF x.ok THEN [x EXCEPT !.val = ToInt(x.val)] ELSE x

dsPerS == 10
nsPerDs == 100000000

\* time.Unix(sec, nsec).UTC(), for 0 <= nsec < 1e9 (no carry into sec).
Unix(sec, nsec) == [sec |-> sec, nsec |-> nsec, loc |-> "UTC"]

\* A faulty variant: the remainder scaled to 10 ms instead of 100 ms.
ReadTimeCentis(b, at) ==
    LET x == ReadBits(b, at, 36)
    IN  IF x.ok
        THEN [x EXCEPT !.val = Unix(DivSmall(x.val, dsPerS), ModSmall(x.val, dsPerS) * 10000000)]
        ELSE x

ReadTime(b, at) ==
    LET x == ReadBits(b, at, 36)
    IN  IF x.ok
        THEN [x EXCEPT !.val = Unix(DivSmall(x.val, dsPerS), ModSmall(x.val, dsPerS) * nsPerDs)]
        ELSE x

\* The base of the earlier revision of ReadString: 'a'.
LetterBaseLower == 97

\* 'A'
LetterBase == 65

RECURSIVE ReadStringLoop(_, _, _, _, _)
ReadStringLoop(b, at, n, i, buf) ==
    IF i >= n THEN [ok |-> TRUE, val |-> buf, pos |-> at]
    ELSE LET x == ReadBits(b, at, 6)
         IN  IF ~x.ok THEN x
             ELSE ReadStringLoop(b, x.pos, n, i + 1,
                                 Append(buf, (ToInt(x.val) + LetterBase) % 256))

ReadString(b, at, n) == ReadStringLoop(b, at, n, 0, <<>>)

\* A faulty variant: bit i is stored under key i, not i + 1.
RECURSIVE ReadBitFieldLoopZeroBased(_, _, _, _, _)
ReadBitFieldLoopZeroBased(b, at, n, i, m) ==
    IF i >= n THEN [ok |-> TRUE, val |-> [nil |-> FALSE, keys |-> m], pos |-> at]
    ELSE LET x == ReadBits(b, at, 1)
         IN  IF ~x.ok THEN x
             ELSE ReadBitFieldLoopZeroBased(b, x.pos, n, i + 1,
                                            IF ToInt(x.val) # 0 THEN m \cup {i} ELSE m)

RECURSIVE ReadBitFieldLoop(_, _, _, _, _)
ReadBitFieldLoop(b, at, n, i, m) ==
    IF i >= n THEN [ok |-> TRUE, val |-> [nil |-> FALSE, keys |-> m], pos |-> at]
    ELSE LET x == ReadBool(b, at)
         IN  IF ~x.ok THEN x
             ELSE ReadBitFieldLoop(b, x.pos, n, i + 1,
                                   IF x.val THEN m \cup {i + 1} ELSE m)

ReadBitField(b, at, n) == ReadBitFieldLoop(b, at, n, 0, {})

RangeEntry(start, end) == [StartVendorID |-> start, EndVendorID |-> end]

\* A faulty variant: the else branch `end = start` is missing, so a
\* single-id entry keeps the zero value of end.
ReadRangeEntryNoEnd(b, at) ==
    LET isRange == ReadBits(b, at, 1)
    IN  IF ~isRange.ok THEN isRange
        ELSE LET start == ReadBits(b, isRange.pos, 16)
             IN  IF ~start.ok THEN start
                 ELSE IF ToInt(isRange.val) # 0
                 THEN LET end == ReadBits(b, start.pos, 16)
                      IN  IF ~end.ok THEN end
                          ELSE [end EXCEPT !.val = RangeEntry(ToInt(start.val), ToInt(end.val))]
                 ELSE [start EXCEPT !.val = RangeEntry(ToInt(start.val), 0)]

\* A faulty variant: the start is read from the flag bit on, 17 bits wide.
ReadRangeEntryFlagInStart(b, at) ==
    LET isRange == ReadBool(b, at)
    IN  IF ~isRange.ok THEN isRange
        ELSE LET start == ReadInt(b, at, 17)
             IN  IF ~start.ok THEN start
                 ELSE IF isRange.val
                 THEN LET end == ReadInt(b, start.pos, 16)
                      IN  IF ~end.ok THEN end
                          ELSE [end EXCEPT !.val = RangeEntry(start.val, end.val)]
                 ELSE [start EXCEPT !.val = RangeEntry(start.val, start.val)]

ReadRangeEntry(b, at) ==
    LET isRange == ReadBool(b, at)
    IN  IF ~isRange.ok THEN isRange
        ELSE LET start == ReadInt(b, isRange.pos, 16)
             IN  IF ~start.ok THEN start
                 ELSE IF isRange.val
                 THEN LET end == ReadInt(b, start.pos, 16)
                      IN  IF ~end.ok THEN end
                          ELSE [end EXCEPT !.val = RangeEntry(start.val, end.val)]
                 ELSE [start EXCEPT !.val = RangeEntry(start.val, start.val)]

RECURSIVE ReadRangeEntriesLoop(_, _, _, _, _)
ReadRangeEntriesLoop(b, at, n, i, out) ==
    IF i >= n THEN [ok |-> TRUE, val |-> [nil |-> FALSE, elems |-> out], pos |-> at]
    ELSE LET e == ReadRangeEntry(b, at)
         IN  IF ~e.ok THEN e
             ELSE ReadRangeEntriesLoop(b, e.pos, n, i + 1, Append(out, e.val))

ReadRangeEntries(b, at, n) == ReadRangeEntriesLoop(b, at, n, 0, <<>>)

----------------------------------------------------------------------------
(* ParsedConsent and its queries.                                           *)

NilMap == [nil |-> TRUE, keys |-> {}]
NilSlice == [nil |-> TRUE, elems |-> <<>>]
ZeroTime == [sec |-> <<0, 0>>, nsec |-> 0, loc |-> "zero"]

\* The nil *ParsedConsent.
NilConsent == [nil |-> TRUE]

\* &ParsedConsent{}: every field at its zero value.  approvedVendorIDs is
\* the field the struct declares and VendorAllowed reads; ConsentedVendors
\* is the field Parse assigns.
ZeroConsent ==
    [nil               |-> FALSE,
     Version           |-> 0,
     Created           |-> ZeroTime,
     LastUpdated       |-> ZeroTime,
     CMPID             |-> 0,
     CMPVersion        |-> 0,
     ConsentScreen     |-> 0,
     ConsentLanguage   |-> <<>>,
     VendorListVersion |-> 0,
     PurposesAllowed   |-> NilMap,
     MaxVendorID       |-> 0,
     IsRangeEncoding   |-> FALSE,
     approvedVendorIDs |-> NilMap,
     ConsentedVendors  |-> NilMap,
     DefaultConsent    |-> FALSE,
     NumEntries        |-> 0,
     RangeEntries      |-> NilSlice]

\* m[k] of a map[int]bool: false for a missing key and for the nil map.
Lookup(m, k) == k \in m.keys

\* A faulty variant: `return true` inside the loop, after the first id.
EveryPurposeAllowedLoopFirstOnly(c, ps, i) ==
    IF i > Len(ps) THEN TRUE
    ELSE IF ~(ps[i] \in c.PurposesAllowed.keys) THEN FALSE
    ELSE TRUE

RECURSIVE EveryPurposeAllowedLoop(_, _, _)
EveryPurposeAllowedLoop(c, ps, i) ==
    IF i > Len(ps) THEN TRUE
    ELSE IF ~Lookup(c.PurposesAllowed, ps[i]) THEN FALSE
    ELSE EveryPurposeAllowedLoop(c, ps, i + 1)

EveryPurposeAllowed(c, ps) == EveryPurposeAllowedLoop(c, ps, 1)

\* A faulty variant: the end of a range is taken as exclusive.
RECURSIVE VendorAllowedLoopExclusiveEnd(_, _, _)
VendorAllowedLoopExclusiveEnd(c, v, i) ==
    IF i > Len(c.RangeEntries.elems) THEN c.DefaultConsent
    ELSE LET re == c.RangeEntries.elems[i]
         IN  IF re.StartVendorID <= v /\ v < re.EndVendorID
             THEN ~c.DefaultConsent
             ELSE VendorAllowedLoopExclusiveEnd(c, v, i + 1)

\* A faulty variant: only the first entry is looked at.
VendorAllowedLoopFirstEntry(c, v, i) ==
    IF i > Len(c.RangeEntries.elems) THEN c.DefaultConsent
    ELSE IF c.RangeEntries.elems[i].StartVendorID <= v /\ v <= c.RangeEntries.elems[i].EndVendorID
         THEN ~c.DefaultConsent
         ELSE c.DefaultConsent

RECURSIVE VendorAllowedLoop(_, _, _)
VendorAllowedLoop(c, v, i) ==
    IF i > Len(c.RangeEntries.elems) THEN c.DefaultConsent
    ELSE LET re == c.RangeEntries.elems[i]
         IN  IF re.StartVendorID <= v /\ v <= re.EndVendorID
             THEN ~c.DefaultConsent
             ELSE VendorAllowedLoop(c, v, i + 1)

VendorAllowed(c, v) ==
    IF c.IsRangeEncoding THEN VendorAllowedLoop(c, v, 1)
    ELSE Lookup(c.approvedVendorIDs, v)

\* The orders of the elements of the sequence es.
Orders(es) ==
    LET n == Len(es)
    IN  {[k \in 1..n |-> es[f[k]]] :
            f \in {g \in [1..n -> 1..n] : \A a, b \in 1..n : a # b => g[a] # g[b]}}

\* normalizeParsedConsent of the test: sort.Slice of the range entries by
\* StartVendorID.  The sort is not stable: every order that is sorted by
\* StartVendorID is a possible outcome.
normalizeParsedConsent(c) ==
    {[c EXCEPT !.RangeEntries.elems = q] :
        q \in {r \in Orders(c.RangeEntries.elems) :
                  \A k \in 1..(Len(r) - 1) : r[k].StartVendorID <= r[k + 1].StartVendorID}}

----------------------------------------------------------------------------
(* Parse, one action per statement.  A read that panics is recovered by the *)
(* deferred function: Parse returns at once with the named results as they  *)
(* stand.                                                                   *)

\* A faulty variant: the deferred func does not set err.
DeferredKeepsErr(panicked, e) == e

\* The deferred func: a recovered panic becomes the error fmt.Errorf("%v", r).
Deferred(panicked, e) == IF panicked THEN "panic" ELSE e

\* A faulty variant: the record is dropped when a panic was recovered.
PanicResultNil(c) == [nil |-> TRUE]

\* The named result p when the deferred func has recovered a panic: the
\* record allocated before the reads, with the fields assigned so far.
PanicResult(c) == c

\* Statement `p.F = r.Read...`: x is the result of the read, q the record
\* with F assigned.
Assign(cur, nxt, x, q) ==
    /\ pc = cur
    /\ pos' = x.pos
    /\ IF x.ok
       THEN /\ p' = q
            /\ pc' = nxt
            /\ err' = err
       ELSE /\ p' = PanicResult(p)
            /\ pc' = "returned"
            /\ err' = Deferred(TRUE, err)
    /\ UNCHANGED <<input, src, ret, iter, local>>

\* b, err := base64.RawURLEncoding.DecodeString(s); on an error return nil,
\* err; else r = NewConsentReader(b) and p = &ParsedConsent{}.
ParseDecode ==
    /\ pc = "Parse"
    /\ LET d == DecodeString(input)
       IN  IF d.err # "nil"
           THEN /\ p' = NilConsent
                /\ err' = Deferred(FALSE, d.err)
                /\ pc' = "returned"
                /\ UNCHANGED <<src, pos>>
           ELSE /\ src' = NewConsentReader(d.bytes)
                /\ pos' = 0
                /\ p' = ZeroConsent
                /\ err' = "nil"
                /\ pc' = "Version"
    /\ UNCHANGED <<input, ret, iter, local>>

ParseVersion ==
    LET x == ReadInt(src, pos, 6)
    IN  Assign("Version", "Created", x, [p EXCEPT !.Version = x.val])

ParseCreated ==
    LET x == ReadTime(src, pos)
    IN  Assign("Created", "LastUpdated", x, [p EXCEPT !.Created = x.val])

ParseLastUpdated ==
    LET x == ReadTime(src, pos)
    IN  Assign("LastUpdated", "CMPID", x, [p EXCEPT !.LastUpdated = x.val])

\* A faulty variant: cmpId read with the width of a vendor id.
ParseCMPIDWide ==
    LET x == ReadInt(src, pos, 16)
    IN  Assign("CMPID", "CMPVersion", x, [p EXCEPT !.CMPID = x.val])

ParseCMPID ==
    LET x == ReadInt(src, pos, 12)
    IN  Assign("CMPID", "CMPVersion", x, [p EXCEPT !.CMPID = x.val])

ParseCMPVersion ==
    LET x == ReadInt(src, pos, 12)
    IN  Assign("CMPVersion", "ConsentScreen", x, [p EXCEPT !.CMPVersion = x.val])

ParseConsentScreen ==
    LET x == ReadInt(src, pos, 6)
    IN  Assign("ConsentScreen", "ConsentLanguage", x, [p EXCEPT !.ConsentScreen = x.val])

ParseConsentLanguage ==
    LET x == ReadString(src, pos, 2)
    IN  Assign("ConsentLanguage", "VendorListVersion", x, [p EXCEPT !.ConsentLanguage = x.val])

ParseVendorListVersion ==
    LET x == ReadInt(src, pos, 12)
    IN  Assign("VendorListVersion", "PurposesAllowed", x, [p EXCEPT !.VendorListVersion = x.val])

ParsePurposesAllowed ==
    LET x == ReadBitField(src, pos, 24)
    IN  Assign("PurposesAllowed", "MaxVendorID", x, [p EXCEPT !.PurposesAllowed = x.val])

ParseMaxVendorID ==
    LET x == ReadInt(src, pos, 16)
    IN  Assign("MaxVendorID", "IsRangeEncoding", x, [p EXCEPT !.MaxVendorID = x.val])

\* p.IsRangeEncoding = r.ReadBool(); if p.IsRangeEncoding { ... } else { ... }
ParseIsRangeEncoding ==
    LET x == ReadBool(src, pos)
    IN  Assign("IsRangeEncoding", IF x.ok /\ x.val THEN "DefaultConsent" ELSE "ConsentedVendors",
               x, [p EXCEPT !.IsRangeEncoding = x.val])

ParseDefaultConsent ==
    LET x == ReadBool(src, pos)
    IN  Assign("DefaultConsent", "NumEntries", x, [p EXCEPT !.DefaultConsent = x.val])

ParseNumEntries ==
    LET x == ReadInt(src, pos, 12)
    IN  Assign("NumEntries", "RangeEntries", x, [p EXCEPT !.NumEntries = x.val])

\* A faulty variant: the Range branch also makes an (empty) vendor set.
ParseRangeEntriesAlsoVendors ==
    LET x == ReadRangeEntries(src, pos, p.NumEntries)
    IN  Assign("RangeEntries", "returned", x,
               [p EXCEPT !.RangeEntries = x.val,
                         !.ConsentedVendors = [nil |-> FALSE, keys |-> {}]])

\* The last statement of the Range branch, then `return p, nil`.
ParseRangeEntries ==
    LET x == ReadRangeEntries(src, pos, p.NumEntries)
    IN  Assign("RangeEntries", "returned", x, [p EXCEPT !.RangeEntries = x.val])

\* A faulty variant: one bit more than MaxVendorID is read.
ParseConsentedVendorsOneMore ==
    LET x == ReadBitField(src, pos, p.MaxVendorID + 1)
    IN  Assign("ConsentedVendors", "returned", x, [p EXCEPT !.ConsentedVendors = x.val])

\* A faulty variant: the vendor bits are read up to the end of the buffer.
ParseConsentedVendorsToEnd ==
    LET x == ReadBitField(src, pos, Max(p.MaxVendorID, Len(src) - pos))
    IN  Assign("ConsentedVendors", "returned", x, [p EXCEPT !.ConsentedVendors = x.val])

\* The last statement of the BitField branch, then `return p, nil`.
ParseConsentedVendors ==
    LET x == ReadBitField(src, pos, p.MaxVendorID)
    IN  Assign("ConsentedVendors", "returned", x, [p EXCEPT !.ConsentedVendors = x.val])

Parse ==
    \/ ParseDecode
    \/ ParseVersion
    \/ ParseCreated
    \/ ParseLastUpdated
    \/ ParseCMPID
    \/ ParseCMPVersion
    \/ ParseConsentScreen
    \/ ParseConsentLanguage
    \/ ParseVendorListVersion
    \/ ParsePurposesAllowed
    \/ ParseMaxVendorID
    \/ ParseIsRangeEncoding
    \/ ParseDefaultConsent
    \/ ParseNumEntries
    \/ ParseRangeEntries
    \/ ParseConsentedVendors

----------------------------------------------------------------------------
(* Calls on the record Parse returned.                                      *)

\* No ReadInt just before on the same cursor.
NoPrev == [op |-> "none", arg |-> 0, val |-> 0, from |-> 0]

NoCall == [op |-> "none", arg |-> 0, val |-> 0, from |-> 0, ok |-> TRUE, prev |-> NoPrev]

MaxQueryVendor == 5
MaxPs == 2

\* Vendor ids asked for: around the small ids of the built records, around
\* the ids of the fixtures, and ids that are no vendor (0, negative).
QueryVendors == (-1 .. MaxQueryVendor) \cup {122, 123, 124, 234, 345, 456, 457}

\* Purpose ids asked for: allowed ones, absent ones and one outside 1..24.
QueryPurposeIds == {1, 2, 25}

RECURSIVE SeqsUpTo(_, _)
SeqsUpTo(S, n) ==
    IF n = 0 THEN {<<>>}
    ELSE LET shorter == SeqsUpTo(S, n - 1)
         IN  shorter \cup {Append(q, x) : q \in {r \in shorter : Len(r) = n - 1}, x \in S}

QueryPurposes == SeqsUpTo(QueryPurposeIds, MaxPs)

\* A faulty variant: the answer is cached in the map of the record.
CallVendorAllowedCaching ==
    /\ pc = "returned"
    /\ ~p.nil
    /\ \E v \in QueryVendors :
          /\ ret' = [op |-> "VendorAllowed", arg |-> v, val |-> VendorAllowed(p, v),
                     from |-> pos, ok |-> TRUE, prev |-> NoPrev]
          /\ p' = [p EXCEPT !.approvedVendorIDs =
                       [nil |-> FALSE, keys |-> IF VendorAllowed(p, v) THEN @.keys \cup {v} ELSE @.keys]]
    /\ UNCHANGED <<input, pc, src, pos, err, iter, local>>

CallVendorAllowed ==
    /\ pc = "returned"
    /\ ~p.nil
    /\ \E v \in QueryVendors :
          ret' = [op |-> "VendorAllowed", arg |-> v, val |-> VendorAllowed(p, v),
                  from |-> pos, ok |-> TRUE, prev |-> NoPrev]
    /\ UNCHANGED <<input, pc, src, pos, p, err, iter, local>>

CallEveryPurposeAllowed ==
    /\ pc = "returned"
    /\ ~p.nil
    /\ \E ps \in QueryPurposes :
          ret' = [op |-> "EveryPurposeAllowed", arg |-> ps, val |-> EveryPurposeAllowed(p, ps),
                  from |-> pos, ok |-> TRUE, prev |-> NoPrev]
    /\ UNCHANGED <<input, pc, src, pos, p, err, iter, local>>

----------------------------------------------------------------------------
(* The strings handed to Parse: the fixtures of the tests, records built    *)
(* field by field, their truncations and corruptions.                       *)

\* "BONMj34ONMj34ABACDENALqAAAAAplY"
FixtureBitField ==
    <<66, 79, 78, 77, 106, 51, 52, 79, 78, 77, 106, 51, 52, 65, 66, 65, 67, 68,
      69, 78, 65, 76, 113, 65, 65, 65, 65, 65, 112, 108, 89>>

\* The padding of the Range fixtures: n times 'A'.
As(n) == [i \in 1..n |-> 65]

\* "BONMj34ONMj34ABACDENALqAAAAAqABAD2AAAAAAAAAAAAAAAAAAAAAAAAAA"
FixtureSingleRangeWithSingleID ==
    <<66, 79, 78, 77, 106, 51, 52, 79, 78, 77, 106, 51, 52, 65, 66, 65, 67, 68,
      69, 78, 65, 76, 113, 65, 65, 65, 65, 65, 113, 65, 66, 65, 68, 50>> \o As(26)

\* "BONMj34ONMj34ABACDENALqAAAAAqABgD2AdQAAAAAAAAAAAAAAAAAAAAAAAAAA"
FixtureSingleRangeWithRange ==
    <<66, 79, 78, 77, 106, 51, 52, 79, 78, 77, 106, 51, 52, 65, 66, 65, 67, 68,
      69, 78, 65, 76, 113, 65, 65, 65, 65, 65, 113, 65, 66, 103, 68, 50, 65,
      100, 81>> \o As(26)

\* "BONMj34ONMj34ABACDENALqAAAAAqACAD2AOoAAAAAAAAAAAAAAAAAAAAAAAAAAAAA"
FixtureMultipleRangesWithSingleID ==
    <<66, 79, 78, 77, 106, 51, 52, 79, 78, 77, 106, 51, 52, 65, 66, 65, 67, 68,
      69, 78, 65, 76, 113, 65, 65, 65, 65, 65, 113, 65, 67, 65, 68, 50, 65, 79,
      111>> \o As(29)

\* "BONMj34ONMj34ABACDENALqAAAAAqACgD2AdUBWQHIAAAAAAAAAAAAAAAAAAAAAAAAAAAAA"
FixtureMultipleRangesWithRange ==
    <<66, 79, 78, 77, 106, 51, 52, 79, 78, 77, 106, 51, 52, 65, 66, 65, 67, 68,
      69, 78, 65, 76, 113, 65, 65, 65, 65, 65, 113, 65, 67, 103, 68, 50, 65,
      100, 85, 66, 87, 81, 72, 73>> \o As(29)

\* "BONMj34ONMj34ABACDENALqAAAAAqACAD3AVkByAAAAAAAAAAAAAAAAAAAAAAAAAAAAA"
FixtureMultipleRangesMixed ==
    <<66, 79, 78, 77, 106, 51, 52, 79, 78, 77, 106, 51, 52, 65, 66, 65, 67, 68,
      69, 78, 65, 76, 113, 65, 65, 65, 65, 65, 113, 65, 67, 65, 68, 51, 65, 86,
      107, 66, 121>> \o As(29)

Fixtures ==
    {FixtureBitField, FixtureSingleRangeWithSingleID, FixtureSingleRangeWithRange,
     FixtureMultipleRangesWithSingleID, FixtureMultipleRangesWithRange,
     FixtureMultipleRangesMixed}

\* The w bits of v, most significant first (w <= 30).
IntBits(v, w) == [i \in 1..w |-> (v \div (2 ^ (w - i))) % 2]

LimbsBits(w) == IntBits(w[1], LimbBits) \o IntBits(w[2], LimbBits)

SetBits(S, n) == [i \in 1..n |-> IF i \in S THEN 1 ELSE 0]

EncodeChar(x) ==
    IF x < 26 THEN 65 + x
    ELSE IF x < 52 THEN 97 + (x - 26)
    ELSE IF x < 62 THEN 48 + (x - 52)
    ELSE IF x = 62 THEN 45
    ELSE 95

\* The shortest string of the alphabet whose decoding starts with bits:
\* zero bits are added up to a length that decodes and covers them.
EncodeBits(bits) ==
    LET n      == Len(bits)
        fits(c) == c % 4 # 1 /\ 8 * ((6 * c) \div 8) >= n
        c      == CHOOSE k \in 0 .. (n \div 6 + 3) :
                      fits(k) /\ \A j \in 0 .. (k - 1) : ~fits(j)
        bit(i) == IF i <= n THEN bits[i] ELSE 0
    IN  [k \in 1..c |->
            EncodeChar(32 * bit(6 * k - 5) + 16 * bit(6 * k - 4) + 8 * bit(6 * k - 3)
                       + 4 * bit(6 * k - 2) + 2 * bit(6 * k - 1) + bit(6 * k))]

\* Header values: those of the fixtures, all bits set, all bits clear, and
\* those of the example of Parse's comment.
Headers ==
    {[version |-> 1, created |-> <<58188, 146936>>, updated |-> <<58188, 146936>>,
      cmpId |-> 1, cmpVersion |-> 2, screen |-> 3, lang |-> <<4, 13>>,
      vendorList |-> 11, purposes |-> {1, 3, 5}, maxVendor |-> 10],
     [version |-> 63, created |-> <<Limb - 1, Limb - 1>>, updated |-> <<Limb - 1, Limb - 1>>,
      cmpId |-> 4095, cmpVersion |-> 4095, screen |-> 63, lang |-> <<63, 63>>,
      vendorList |-> 4095, purposes |-> 1..24, maxVendor |-> 65535],
     [version |-> 0, created |-> <<0, 0>>, updated |-> <<0, 0>>,
      cmpId |-> 0, cmpVersion |-> 0, screen |-> 0, lang |-> <<0, 0>>,
      vendorList |-> 0, purposes |-> {}, maxVendor |-> 0],
     [version |-> 2, created |-> <<58185, 235247>>, updated |-> <<1, 9>>,
      cmpId |-> 12, cmpVersion |-> 15, screen |-> 50, lang |-> <<25, 26>>,
      vendorList |-> 2049, purposes |-> {1, 2, 24}, maxVendor |-> 200]}

HeaderBits(h, maxVendor) ==
    IntBits(h.version, 6) \o LimbsBits(h.created) \o LimbsBits(h.updated)
    \o IntBits(h.cmpId, 12) \o IntBits(h.cmpVersion, 12) \o IntBits(h.screen, 6)
    \o IntBits(h.lang[1], 6) \o IntBits(h.lang[2], 6) \o IntBits(h.vendorList, 12)
    \o SetBits(h.purposes, 24) \o IntBits(maxVendor, 16)

MaxVendor == 3
MaxEntries == 2

\* A BitField record: maxVendor = n and one bit per vendor 1..n.
BitFieldStrings ==
    {EncodeBits(HeaderBits(h, n) \o <<0>> \o SetBits(S, n)) :
        h \in Headers, n \in 0..MaxVendor, S \in SUBSET (1..MaxVendor)}

\* The entries of the built Range records: single ids, ranges that overlap,
\* a range with start > end, and the id 0.
EntryChoices ==
    {[isRange |-> FALSE, start |-> 2, end |-> 2],
     [isRange |-> FALSE, start |-> 0, end |-> 0],
     [isRange |-> TRUE, start |-> 1, end |-> 3],
     [isRange |-> TRUE, start |-> 3, end |-> 4],
     [isRange |-> TRUE, start |-> 4, end |-> 2]}

EntryBits(e) ==
    IF e.isRange THEN <<1>> \o IntBits(e.start, 16) \o IntBits(e.end, 16)
    ELSE <<0>> \o IntBits(e.start, 16)

RECURSIVE EntriesBits(_)
EntriesBits(es) == IF es = <<>> THEN <<>> ELSE EntryBits(Head(es)) \o EntriesBits(Tail(es))

RangeHeaders == {h \in Headers : h.version \in {1, 63}}

\* A Range record: the flag, the default, the count and the entries.
RangeStrings ==
    {EncodeBits(HeaderBits(h, h.maxVendor) \o <<1, d>> \o IntBits(Len(es), 12)
                \o EntriesBits(es)) :
        h \in RangeHeaders, d \in {0, 1}, es \in SeqsUpTo(EntryChoices, MaxEntries)}

\* Every prefix of a few strings: a string cut in the middle of any field.
Prefixes(s) == {SubSeq(s, 1, k) : k \in 0..Len(s)}

Truncated ==
    Prefixes(FixtureBitField) \cup Prefixes(SubSeq(FixtureMultipleRangesMixed, 1, 41))

\* A character outside the alphabet ('!', the padding '=', the '+' of the
\* standard alphabet) at the start, in the middle or at the end.
Corrupted ==
    {[FixtureBitField EXCEPT ![k] = c] : k \in {1, 16, 31}, c \in {33, 61, 43}}

\* Records that declare more than they hold: 4095 range entries with two
\* present, and a MaxVendorID of 65535 with a few vendor bits present.
Overdeclared ==
    {EncodeBits(HeaderBits(h, h.maxVendor) \o <<1, 1>> \o IntBits(4095, 12)
                \o EntriesBits(<<[isRange |-> TRUE, start |-> 1, end |-> 3],
                                 [isRange |-> FALSE, start |-> 2, end |-> 2]>>)) :
        h \in {g \in Headers : g.version = 1}}
    \cup {EncodeBits(HeaderBits(h, 65535) \o <<0>> \o SetBits({1, 3}, 5)) :
             h \in {g \in Headers : g.version = 1}}

\* Bits that follow the declared content: none, set bits up to the end of a
\* byte and beyond, and bits that read as one more range entry.
Tails ==
    {<<>>, <<1, 1, 1, 1>>, <<1, 1, 1, 1, 1, 1, 1, 1>>,
     <<1, 1, 1, 1, 0, 0, 0, 0, 0, 0, 0, 0, 0, 0, 0, 0, 0, 1, 1, 1>>}

\* Records followed by such bits: a BitField record of exactly 22 bytes, a
\* Range record of two entries and one of none.
Padded ==
    LET h == CHOOSE g \in Headers : g.version = 1
    IN  {EncodeBits(content \o t) :
            content \in {HeaderBits(h, 3) \o <<0>> \o SetBits({1, 3}, 3),
                         HeaderBits(h, h.maxVendor) \o <<1, 0>> \o IntBits(2, 12)
                             \o EntriesBits(<<[isRange |-> TRUE, start |-> 3, end |-> 4],
                                              [isRange |-> FALSE, start |-> 2, end |-> 2]>>),
                         HeaderBits(h, h.maxVendor) \o <<1, 1>> \o IntBits(0, 12)},
            t \in Tails}

Inputs ==
    Fixtures \cup BitFieldStrings \cup RangeStrings \cup Truncated \cup Corrupted
    \cup Overdeclared \cup Padded

----------------------------------------------------------------------------
Init ==
    /\ input \in Inputs
    /\ pc = "Parse"
    /\ src = <<>>
    /\ pos = 0
    /\ p = NilConsent
    /\ err = "nil"
    /\ ret = NoCall
    /\ iter = 0
    /\ local = NilSlice

Next ==
    \/ Parse
    \/ CallVendorAllowed
    \/ CallEveryPurposeAllowed

Spec == Init /\ [][Next]_vars

----------------------------------------------------------------------------
(* Parse with the two loops that fill the vendor containers run one         *)
(* iteration per step: ReadRangeEntries(uint(p.NumEntries)) and             *)
(* ReadBitField(uint(p.MaxVendorID)).  iter is the counter i of the loop,   *)
(* local the slice or map the loop fills.                                   *)

\* var ret = make([]*RangeEntry, 0, n); i := uint(0)
ReadRangeEntriesEnter ==
    /\ pc = "RangeEntries"
    /\ local' = [nil |-> FALSE, elems |-> <<>>]
    /\ iter' = 0
    /\ pc' = "ReadRangeEntries"
    /\ UNCHANGED <<input, src, pos, p, err, ret>>

\* A faulty variant: the loop condition is i <= n.
ReadRangeEntriesIterateOneMore ==
    /\ pc = "ReadRangeEntries"
    /\ iter <= p.NumEntries
    /\ LET e == ReadRangeEntry(src, pos)
       IN  /\ pos' = e.pos
           /\ IF e.ok
              THEN /\ local' = [local EXCEPT !.elems = Append(@, e.val)]
                   /\ iter' = iter + 1
                   /\ UNCHANGED <<pc, p, err>>
              ELSE /\ p' = PanicResult(p)
                   /\ pc' = "returned"
                   /\ err' = Deferred(TRUE, err)
                   /\ UNCHANGED <<iter, local>>
    /\ UNCHANGED <<input, src, ret>>

\* One iteration (i < n): the reads of an entry, then the append and i++;
\* a read that panics leaves the loop and Parse through the deferred func.
ReadRangeEntriesIterate ==
    /\ pc = "ReadRangeEntries"
    /\ iter < p.NumEntries
    /\ LET e == ReadRangeEntry(src, pos)
       IN  /\ pos' = e.pos
           /\ IF e.ok
              THEN /\ local' = [local EXCEPT !.elems = Append(@, e.val)]
                   /\ iter' = iter + 1
                   /\ UNCHANGED <<pc, p, err>>
              ELSE /\ p' = PanicResult(p)
                   /\ pc' = "returned"
                   /\ err' = Deferred(TRUE, err)
                   /\ UNCHANGED <<iter, local>>
    /\ UNCHANGED <<input, src, ret>>

\* The loop is left (i >= n): return ret, assigned to p.RangeEntries, and
\* `return p, nil`.
ReadRangeEntriesReturn ==
    /\ pc = "ReadRangeEntries"
    /\ ~(iter < p.NumEntries)
    /\ p' = [p EXCEPT !.RangeEntries = local]
    /\ pc' = "returned"
    /\ UNCHANGED <<input, src, pos, err, ret, iter, local>>

\* var m = make(map[int]bool); i := uint(0)
ReadBitFieldEnter ==
    /\ pc = "ConsentedVendors"
    /\ local' = [nil |-> FALSE, keys |-> {}]
    /\ iter' = 0
    /\ pc' = "ReadBitField"
    /\ UNCHANGED <<input, src, pos, p, err, ret>>

\* One iteration (i < n): if r.ReadBool() { m[int(i)+1] = true }; i++.
ReadBitFieldIterate ==
    /\ pc = "ReadBitField"
    /\ iter < p.MaxVendorID
    /\ LET x == ReadBool(src, pos)
       IN  /\ pos' = x.pos
           /\ IF x.ok
              THEN /\ local' = IF x.val THEN [local EXCEPT !.keys = @ \cup {iter + 1}]
                                         ELSE local
                   /\ iter' = iter + 1
                   /\ UNCHANGED <<pc, p, err>>
              ELSE /\ p' = PanicResult(p)
                   /\ pc' = "returned"
                   /\ err' = Deferred(TRUE, err)
                   /\ UNCHANGED <<iter, local>>
    /\ UNCHANGED <<input, src, ret>>

\* The loop is left (i >= n): return m, assigned to p.ConsentedVendors, and
\* `return p, nil`.
ReadBitFieldReturn ==
    /\ pc = "ReadBitField"
    /\ ~(iter < p.MaxVendorID)
    /\ p' = [p EXCEPT !.ConsentedVendors = local]
    /\ pc' = "returned"
    /\ UNCHANGED <<input, src, pos, err, ret, iter, local>>

ParseSteps ==
    \/ ParseDecode
    \/ ParseVersion
    \/ ParseCreated
    \/ ParseLastUpdated
    \/ ParseCMPID
    \/ ParseCMPVersion
    \/ ParseConsentScreen
    \/ ParseConsentLanguage
    \/ ParseVendorListVersion
    \/ ParsePurposesAllowed
    \/ ParseMaxVendorID
    \/ ParseIsRangeEncoding
    \/ ParseDefaultConsent
    \/ ParseNumEntries
    \/ ReadRangeEntriesEnter
    \/ ReadRangeEntriesIterate
    \/ ReadRangeEntriesReturn
    \/ ReadBitFieldEnter
    \/ ReadBitFieldIterate
    \/ ReadBitFieldReturn

\* Parse is one synchronous call: the goroutine that runs it takes its next
\* step as long as there is one.
SpecSteps == Init /\ [][ParseSteps]_vars /\ WF_vars(ParseSteps)

----------------------------------------------------------------------------
(* The range loop of the earlier, offset-based revision of Parse: every     *)
(* read names its offset, RangeEntryOffset + parsedBits, and returns a      *)
(* value and an error.                                                      *)

RangeEntryOffset == 186
VendorIdSize == 16

\* bs.ParseInt(offset, size): the unsigned big-endian value of size bits
\* from offset on, or an error when they run past the end.
OffsetParseInt(b, offset, size) ==
    IF offset + size > Len(b) THEN [err |-> "error", val |-> 0]
    ELSE [err |-> "nil", val |-> Accumulate(b, offset, size, 0)]

\* bs.ParseBool(offset): the bit at offset, or false and an error.
OffsetParseBool(b, offset) ==
    IF offset + 1 > Len(b) THEN [err |-> "error", val |-> FALSE]
    ELSE [err |-> "nil", val |-> (b[offset + 1] = 1)]

\* A faulty variant: parsedBits advances by the width of a range (1 + 2 * 16)
\* for every entry.
OffsetRangeEntryFixedStride(b, parsedBits) ==
    LET isIDRange == OffsetParseBool(b, RangeEntryOffset + parsedBits).val
        start     == OffsetParseInt(b, RangeEntryOffset + parsedBits + 1, VendorIdSize)
        end       == OffsetParseInt(b, RangeEntryOffset + parsedBits + 1 + VendorIdSize, VendorIdSize)
    IN  IF start.err # "nil" THEN [err |-> start.err, val |-> RangeEntry(0, 0), parsedBits |-> parsedBits + 1]
        ELSE IF isIDRange /\ end.err # "nil"
        THEN [err |-> end.err, val |-> RangeEntry(0, 0), parsedBits |-> parsedBits + 1 + VendorIdSize]
        ELSE [err |-> "nil",
              val |-> RangeEntry(start.val, IF isIDRange THEN end.val ELSE start.val),
              parsedBits |-> parsedBits + 1 + 2 * VendorIdSize]

\* One iteration: the flag at RangeEntryOffset + parsedBits (its error is
\* not looked at: the next read overwrites err), parsedBits++, then the start
\* and, for a range, the end, each followed by parsedBits += VendorIdSize.
OffsetRangeEntry(b, parsedBits) ==
    LET isIDRange == OffsetParseBool(b, RangeEntryOffset + parsedBits).val
        afterFlag == parsedBits + 1
        start     == OffsetParseInt(b, RangeEntryOffset + afterFlag, VendorIdSize)
    IN  IF start.err # "nil"
        THEN [err |-> start.err, val |-> RangeEntry(0, 0), parsedBits |-> afterFlag]
        ELSE IF isIDRange
        THEN LET afterStart == afterFlag + VendorIdSize
                 end        == OffsetParseInt(b, RangeEntryOffset + afterStart, VendorIdSize)
             IN  IF end.err # "nil"
                 THEN [err |-> end.err, val |-> RangeEntry(0, 0), parsedBits |-> afterStart]
                 ELSE [err |-> "nil", val |-> RangeEntry(start.val, end.val),
                       parsedBits |-> afterStart + VendorIdSize]
        ELSE [err |-> "nil", val |-> RangeEntry(start.val, start.val),
              parsedBits |-> afterFlag + VendorIdSize]

\* for i := 0; i < numEntries; i++ { ... rangeEntries = append(...) }; an
\* error returns at once.
RECURSIVE OffsetRangeEntriesLoop(_, _, _, _, _)
OffsetRangeEntriesLoop(b, numEntries, k, parsedBits, rangeEntries) ==
    IF k >= numEntries
    THEN [err |-> "nil", rangeEntries |-> rangeEntries, parsedBits |-> parsedBits]
    ELSE LET e == OffsetRangeEntry(b, parsedBits)
         IN  IF e.err # "nil"
             THEN [err |-> e.err, rangeEntries |-> NilSlice, parsedBits |-> e.parsedBits]
             ELSE OffsetRangeEntriesLoop(b, numEntries, k + 1, e.parsedBits,
                                         [nil |-> FALSE, elems |-> Append(rangeEntries.elems, e.val)])

\* var rangeEntries []*RangeEntry (nil); var parsedBits = 0; the loop.
OffsetRangeEntries(b, numEntries) == OffsetRangeEntriesLoop(b, numEntries, 0, 0, NilSlice)

----------------------------------------------------------------------------
(* The ConsentReader used on its own, as the tests of parse_test.go do: a   *)
(* reader over a byte buffer and a sequence of reads.  A read past the end  *)
(* panics and ends the run.                                                 *)

MaxBufBytes == 2
MaxIntWidth == 4
MaxFieldWidth == 6
MaxLetters == 2

ByteChoices == {0, 255, 90, 170}

\* 0x38 0xdf 0x6b 0x35 0xB0 (TestConsentReader_ReadTime)
TimeTestBytes == <<56, 223, 107, 53, 176>>

\* The 64 sextets 0..63 in order, as 48 bytes.
AlphabetBytes == DecodeString([k \in 1..64 |-> EncodeChar(k - 1)]).bytes

ReaderBuffers ==
    SeqsUpTo(ByteChoices, MaxBufBytes)
    \cup {TimeTestBytes, <<255, 255, 255, 255, 255>>, <<0, 0, 0, 0, 9>>,
          <<0, 0, 0, 0, 160, 0>>, <<18, 52, 86, 120, 154, 188>>, AlphabetBytes}

ReadIntWidths == (1 .. MaxIntWidth) \cup {6, 12, 16}
BitFieldWidths == (0 .. MaxFieldWidth) \cup {24}

InitReader ==
    /\ input = <<>>
    /\ pc = "reader"
    /\ src \in {NewConsentReader(bs) : bs \in ReaderBuffers}
    /\ pos = 0
    /\ p = NilConsent
    /\ err = "nil"
    /\ ret = NoCall
    /\ iter = 0
    /\ local = NilSlice

\* The call op(arg) on the reader, x its result; for a ReadInt that follows
\* a ReadInt immediately, prev is that first read.
Called(op, arg, x) ==
    /\ pc = "reader"
    /\ ret' = [op |-> op, arg |-> arg, val |-> x.val, from |-> pos, ok |-> x.ok,
               prev |-> IF op = "ReadInt" /\ ret.op = "ReadInt"
                        THEN [op |-> ret.op, arg |-> ret.arg, val |-> ret.val, from |-> ret.from]
                        ELSE NoPrev]
    /\ pos' = x.pos
    /\ pc' = IF x.ok THEN "reader" ELSE "panicked"
    /\ UNCHANGED <<input, src, p, err, iter, local>>

CallReadInt == \E n \in ReadIntWidths : Called("ReadInt", n, ReadInt(src, pos, n))

CallReadBool == Called("ReadBool", 1, ReadBool(src, pos))

CallReadTime == Called("ReadTime", 36, ReadTime(src, pos))

CallReadString == \E n \in 0..MaxLetters : Called("ReadString", n, ReadString(src, pos, n))

CallReadBitField == \E n \in BitFieldWidths : Called("ReadBitField", n, ReadBitField(src, pos, n))

NextReader ==
    \/ CallReadInt
    \/ CallReadBool
    \/ CallReadTime
    \/ CallReadString
    \/ CallReadBitField

SpecReader == InitReader /\ [][NextReader]_vars

----------------------------------------------------------------------------
(* What the format says of a bit stream, stated apart from the reader.      *)

\* The unsigned big-endian value of the w bits after offset off (w <= 30).
RECURSIVE ValueAt(_, _, _)
ValueAt(b, off, w) == IF w = 0 THEN 0 ELSE b[off + w] + 2 * ValueAt(b, off, w - 1)

\* The 36-bit value after offset off, in limbs.
WideAt(b, off) == <<ValueAt(b, off, LimbBits), ValueAt(b, off + LimbBits, LimbBits)>>

\* t is the instant d deciseconds after the epoch, in UTC.
IsInstantOf(t, d) ==
    /\ t.loc = "UTC"
    /\ t.nsec % 100000000 = 0
    /\ (t.nsec \div 100000000) \in 0..9
    /\ MulAddSmall(t.sec, 10, t.nsec \div 100000000) = d

\* The positions 1..n whose bit after offset off is set.
SetAt(b, off, n) == {i \in 1..n : b[off + i] = 1}

\* The offset of the k-th range entry (k = 1 is the first): 186 plus the
\* widths of the entries before it.
RECURSIVE EntryOffset(_, _)
EntryOffset(b, k) ==
    IF k = 1 THEN 186
    ELSE LET o == EntryOffset(b, k - 1)
         IN  o + (IF b[o + 1] = 1 THEN 33 ELSE 17)

EntryAt(b, o) ==
    [StartVendorID |-> ValueAt(b, o + 1, 16),
     EndVendorID   |-> IF b[o + 1] = 1 THEN ValueAt(b, o + 17, 16) ELSE ValueAt(b, o + 1, 16)]

\* The end of the last field read that the layout makes of n entries from
\* offset o on: it exceeds Len(b) exactly if a read runs past the end.
RECURSIVE EntriesEnd(_, _, _)
EntriesEnd(b, o, n) ==
    IF n = 0 THEN o
    ELSE IF o + 1 > Len(b) THEN o + 1
    ELSE LET w == IF b[o + 1] = 1 THEN 33 ELSE 17
         IN  IF o + w > Len(b) THEN o + w ELSE EntriesEnd(b, o + w, n - 1)

\* The bits the layout asks of the stream b.
Demand(b) ==
    IF Len(b) < 173 THEN 173
    ELSE IF b[173] = 0 THEN 173 + ValueAt(b, 156, 16)
    ELSE IF Len(b) < 186 THEN 186
    ELSE EntriesEnd(b, 186, ValueAt(b, 174, 12))

AlphabetCodes == (65..90) \cup (97..122) \cup (48..57) \cup {45, 95}

ValidBase64(s) == (\A i \in 1..Len(s) : s[i] \in AlphabetCodes) /\ Len(s) % 4 # 1

Returned == pc = "returned"
Succeeded == pc = "returned" /\ err = "nil"

Contains(re, v) == re.StartVendorID <= v /\ v <= re.EndVendorID

----------------------------------------------------------------------------
(* The claims.                                                              *)

\* C1: on a record in Range mode VendorAllowed(v) is the negation of
\* DefaultConsent when some range entry contains v (StartVendorID <= v <=
\* EndVendorID) and DefaultConsent itself when no entry contains v.
C1_RangeVendorAllowed ==
    (ret.op = "VendorAllowed" /\ p.IsRangeEncoding) =>
        LET es == p.RangeEntries.elems
        IN  ret.val = IF \E k \in 1..Len(es) : Contains(es[k], ret.arg)
                      THEN ~p.DefaultConsent
                      ELSE p.DefaultConsent

\* A Range record with two entries of which only the second contains v, and
\* a default of true that the entry turns into false.
C1_Witness ==
    /\ ret.op = "VendorAllowed"
    /\ Succeeded
    /\ p.IsRangeEncoding
    /\ p.DefaultConsent
    /\ Len(p.RangeEntries.elems) = 2
    /\ ~Contains(p.RangeEntries.elems[1], ret.arg)
    /\ Contains(p.RangeEntries.elems[2], ret.arg)
    /\ ret.val = FALSE

\* C2: after a successful Parse of a BitField string VendorAllowed(v) is true
\* exactly if 1 <= v <= MaxVendorID and the bit at offset 173 + (v - 1) of the
\* stream is set.
C2_BitFieldVendorAllowed ==
    (ret.op = "VendorAllowed" /\ Succeeded /\ ~p.IsRangeEncoding) =>
        (ret.val <=> (1 <= ret.arg /\ ret.arg <= p.MaxVendorID /\ src[173 + ret.arg] = 1))

C4_RangeEntries ==
    (Succeeded /\ p.IsRangeEncoding) =>
        LET es == p.RangeEntries.elems
        IN  /\ ~p.RangeEntries.nil
            /\ p.NumEntries = ValueAt(src, 174, 12)
            /\ Len(es) = p.NumEntries
            /\ \A k \in 1..Len(es) : es[k] = EntryAt(src, EntryOffset(src, k))

\* A record that mixes a single id and a true range (MultipleRangesMixed).
C4_Witness ==
    /\ Succeeded
    /\ p.IsRangeEncoding
    /\ p.RangeEntries.elems = <<RangeEntry(123, 123), RangeEntry(345, 456)>>
    /\ src[187] = 0
    /\ src[204] = 1

\* C5: Parse returns an error exactly if the string is not unpadded URL-safe
\* base64 or a read of the layout asks for more bits than the buffer holds;
\* for a string that is not base64 the error is the decoder's and no reader
\* is made nor a bit read.
C5_ErrorIff ==
    Returned =>
        /\ (err # "nil") <=> (~ValidBase64(input) \/ Demand(src) > Len(src))
        /\ ~ValidBase64(input) => (err = "CorruptInputError" /\ src = <<>> /\ pos = 0)
        /\ ValidBase64(input) => err \in {"nil", "panic"}

\* A Range record cut inside its entries: the header and the count were
\* read, the entries ran past the end.
C5_Witness ==
    /\ Returned
    /\ err = "panic"
    /\ ValidBase64(input)
    /\ Len(src) >= 186
    /\ src[173] = 1
    /\ ValueAt(src, 174, 12) = 2
    /\ Demand(src) > Len(src)

\* The record the layout yields of the stream b, each field assigned exactly
\* if the stream holds all its bits (the fields after it keep their zero).
Decoded(b) ==
    LET has(n) == Len(b) >= n
        isRange == has(173) /\ b[173] = 1
        maxVendor == IF has(172) THEN ValueAt(b, 156, 16) ELSE 0
        n == IF isRange /\ has(186) THEN ValueAt(b, 174, 12) ELSE 0
        timeAt(off) ==
            [sec  |-> DivSmall(WideAt(b, off), 10),
             nsec |-> ModSmall(WideAt(b, off), 10) * 100000000,
             loc  |-> "UTC"]
    IN  [nil               |-> FALSE,
         Version           |-> IF has(6) THEN ValueAt(b, 0, 6) ELSE 0,
         Created           |-> IF has(42) THEN timeAt(6) ELSE ZeroTime,
         LastUpdated       |-> IF has(78) THEN timeAt(42) ELSE ZeroTime,
         CMPID             |-> IF has(90) THEN ValueAt(b, 78, 12) ELSE 0,
         CMPVersion        |-> IF has(102) THEN ValueAt(b, 90, 12) ELSE 0,
         ConsentScreen     |-> IF has(108) THEN ValueAt(b, 102, 6) ELSE 0,
         ConsentLanguage   |-> IF has(120)
                               THEN <<65 + ValueAt(b, 108, 6), 65 + ValueAt(b, 114, 6)>>
                               ELSE <<>>,
         VendorListVersion |-> IF has(132) THEN ValueAt(b, 120, 12) ELSE 0,
         PurposesAllowed   |-> IF has(156)
                               THEN [nil |-> FALSE, keys |-> SetAt(b, 132, 24)]
                               ELSE NilMap,
         MaxVendorID       |-> maxVendor,
         IsRangeEncoding   |-> isRange,
         ConsentedVendors  |-> IF has(173) /\ ~isRange /\ has(173 + maxVendor)
                               THEN [nil |-> FALSE, keys |-> SetAt(b, 173, maxVendor)]
                               ELSE NilMap,
         DefaultConsent    |-> isRange /\ has(174) /\ b[174] = 1,
         NumEntries        |-> n,
         RangeEntries      |-> IF isRange /\ has(186) /\ EntriesEnd(b, 186, n) <= Len(b)
                               THEN [nil |-> FALSE,
                                     elems |-> [k \in 1..n |-> EntryAt(b, EntryOffset(b, k))]]
                               ELSE NilSlice]

\* The fields Parse assigns.
ParsedFields ==
    {"nil", "Version", "Created", "LastUpdated", "CMPID", "CMPVersion", "ConsentScreen",
     "ConsentLanguage", "VendorListVersion", "PurposesAllowed", "MaxVendorID",
     "IsRangeEncoding", "ConsentedVendors", "DefaultConsent", "NumEntries", "RangeEntries"}

\* C6 as claimed: whenever Parse returns an error the record returned is nil.
C6_NoPartialRecord == (Returned /\ err # "nil") => p.nil

\* C6 as the code has it: the record is nil when the string is not base64;
\* when a read ran past the end of the buffer Parse returns, with the error,
\* the record holding the fields assigned before that read, the field being
\* read and every later field at their zero values.
C6_PartialRecord ==
    Returned =>
        /\ err = "CorruptInputError" => p.nil
        /\ err = "panic" =>
              /\ ~p.nil
              /\ \A f \in ParsedFields : p[f] = Decoded(src)[f]
              /\ p.RangeEntries.nil
              /\ p.ConsentedVendors.nil

\* A string cut inside the language code: the six fields before it are set,
\* the language and the fields after it are not.
C6_Witness ==
    /\ Returned
    /\ err = "panic"
    /\ ~p.nil
    /\ p.Version = 1
    /\ p.CMPVersion = 2
    /\ p.ConsentScreen = 3
    /\ p.ConsentLanguage = <<>>
    /\ p.PurposesAllowed.nil
    /\ Len(src) = 112

\* C7: EveryPurposeAllowed(ps) is true exactly if every id of ps is a member
\* of PurposesAllowed: true for the empty sequence, false when an id is absent.
C7_EveryPurposeAllowed ==
    ret.op = "EveryPurposeAllowed" =>
        /\ ret.val <=> (\A i \in 1..Len(ret.arg) : ret.arg[i] \in p.PurposesAllowed.keys)
        /\ ret.arg = <<>> => ret.val

\* Two ids asked for, the first allowed and the second absent.
C7_Witness ==
    /\ ret.op = "EveryPurposeAllowed"
    /\ Succeeded
    /\ Len(ret.arg) = 2
    /\ ret.arg[1] \in p.PurposesAllowed.keys
    /\ ret.arg[2] \notin p.PurposesAllowed.keys
    /\ ret.val = FALSE

\* C8: ReadTime consumes 36 bits, the unsigned value d, and returns the UTC
\* instant of d div 10 seconds and (d mod 10) * 100 ms; on the bytes
\* 0x38 0xdf 0x6b 0x35 0xB0 it returns 1526665711.5 s and leaves 4 bits.
C8_ReadTime ==
    (ret.op = "ReadTime" /\ ret.ok) =>
        /\ pos = ret.from + 36
        /\ IsInstantOf(ret.val, WideAt(src, ret.from))
        /\ (src = NewConsentReader(TimeTestBytes) /\ ret.from = 0) =>
              /\ ret.val = [sec |-> ToLimbs(1526665711), nsec |-> 500000000, loc |-> "UTC"]
              /\ Len(src) - pos = 4

\* The read of the test: the five bytes, read from the start.
C8_Witness ==
    /\ ret.op = "ReadTime"
    /\ ret.ok
    /\ src = NewConsentReader(TimeTestBytes)
    /\ ret.from = 0
    /\ ret.val.nsec = 500000000

\* C9 as claimed: ReadString(count) consumes count groups of 6 bits, maps
\* the group value g to the character 'A' + g, and every character it
\* produces is an uppercase letter A..Z.
C9_AlwaysUppercase ==
    (ret.op = "ReadString" /\ ret.ok) =>
        /\ pos = ret.from + 6 * ret.arg
        /\ Len(ret.val) = ret.arg
        /\ \A i \in 1..ret.arg :
              /\ ret.val[i] = 65 + ValueAt(src, ret.from + 6 * (i - 1), 6)
              /\ ret.val[i] \in 65..90

\* C9 as the code has it: ReadString(count) consumes count groups of 6 bits
\* and maps the group value g to the character 'A' + g; that character is an
\* uppercase letter A..Z exactly if g <= 25, and one of the 38 characters
\* after 'Z' (codes 91..128) for g in 26..63.
C9_ReadString ==
    (ret.op = "ReadString" /\ ret.ok) =>
        /\ pos = ret.from + 6 * ret.arg
        /\ Len(ret.val) = ret.arg
        /\ \A i \in 1..ret.arg :
              LET g == ValueAt(src, ret.from + 6 * (i - 1), 6)
              IN  /\ ret.val[i] = 65 + g
                  /\ (ret.val[i] \in 65..90) <=> (g <= 25)
                  /\ g >= 26 => ret.val[i] \in 91..128

\* Two groups read, the first a letter ('Z', g = 25) and the second not
\* ('[', g = 26).
C9_Witness ==
    /\ ret.op = "ReadString"
    /\ ret.ok
    /\ ret.arg = 2
    /\ ret.val = <<90, 91>>
    /\ pos = ret.from + 12

\* C10: ReadBitField(n) consumes n bits and returns the set of the i + 1 for
\* which the i-th bit after the cursor (i = 0..n-1) is set, numbered from 1
\* on every call, across byte boundaries; on the byte 0x5a a read of 2 bits
\* returns {2} and the next read of 6 bits {2, 3, 5}, leaving no bit unread.
C10_ReadBitField ==
    (ret.op = "ReadBitField" /\ ret.ok) =>
        /\ pos = ret.from + ret.arg
        /\ ret.val = [nil |-> FALSE, keys |-> {i \in 1..ret.arg : src[ret.from + i] = 1}]
        /\ (src = NewConsentReader(<<90>>) /\ ret.from = 0 /\ ret.arg = 2) =>
              ret.val.keys = {2}
        /\ (src = NewConsentReader(<<90>>) /\ ret.from = 2 /\ ret.arg = 6) =>
              (ret.val.keys = {2, 3, 5} /\ pos = Len(src))

\* The second read of the test: 6 bits of 0x5a after the first 2.
C10_Witness ==
    /\ ret.op = "ReadBitField"
    /\ ret.ok
    /\ src = NewConsentReader(<<90>>)
    /\ ret.from = 2
    /\ ret.arg = 6
    /\ ret.val.keys = {2, 3, 5}
    /\ pos = 8

\* a * 2^m + b in limbs, for a below 2^18 and b below 2^m (m <= 18).
ShiftAdd(a, m, b) ==
    <<a \div (2 ^ (LimbBits - m)), (a % (2 ^ (LimbBits - m))) * (2 ^ m) + b>>

C12_ExactConsumption ==
    (Succeeded /\ ~p.IsRangeEncoding) =>
        /\ p.MaxVendorID = ValueAt(src, 156, 16)
        /\ pos = 173 + p.MaxVendorID
        /\ pos <= Len(src)
        /\ Len(src) = 173 + p.MaxVendorID => Len(src) - pos = 0

\* A record of 22 bytes: 173 bits of header and flag and 3 vendor bits.
C12_Witness ==
    /\ Succeeded
    /\ ~p.IsRangeEncoding
    /\ p.MaxVendorID = 3
    /\ Len(src) = 176
    /\ pos = Len(src)
    /\ p.ConsentedVendors.keys = {1, 3}

ReferencedVendorIDs(c) ==
    {c.RangeEntries.elems[k].StartVendorID : k \in 1..Len(c.RangeEntries.elems)}
    \cup {c.RangeEntries.elems[k].EndVendorID : k \in 1..Len(c.RangeEntries.elems)}
    \cup c.ConsentedVendors.keys \cup c.approvedVendorIDs.keys

\* C14 as claimed: after a successful Parse every vendor id the record
\* refers to lies in 1..65535.
C14_PositiveVendorIDs ==
    Succeeded => ReferencedVendorIDs(p) \subseteq 1..65535

\* C14 as the code has it: after a successful Parse the bounds of every
\* range entry are the 16-bit values of the stream, in 0..65535 with 0 not
\* rejected, and the members of the vendor set lie in 1..MaxVendorID, with
\* MaxVendorID at most 65535.
C14_VendorIDRange ==
    Succeeded =>
        /\ \A k \in 1..Len(p.RangeEntries.elems) :
              /\ p.RangeEntries.elems[k].StartVendorID \in 0..65535
              /\ p.RangeEntries.elems[k].EndVendorID \in 0..65535
        /\ p.MaxVendorID \in 0..65535
        /\ p.ConsentedVendors.keys \subseteq 1..p.MaxVendorID
        /\ p.approvedVendorIDs.keys \subseteq 1..p.MaxVendorID

\* A Range record with an entry whose 16 start bits are all clear: the
\* vendor id 0.
C14_Witness ==
    /\ Succeeded
    /\ p.IsRangeEncoding
    /\ Len(p.RangeEntries.elems) = 2
    /\ p.RangeEntries.elems[1] = RangeEntry(1, 3)
    /\ p.RangeEntries.elems[2] = RangeEntry(0, 0)
    /\ 0 \in ReferencedVendorIDs(p)

\* C15: a record is not changed by its queries: in every state after Parse
\* has returned a record, whatever queries were made on it and with whatever
\* arguments (ids absent from the record included), every field is the one
\* the decode assigned, and the answer of the last query is the answer that
\* query has on that record.
C15_Immutable ==
    (Returned /\ ~p.nil) =>
        /\ LET decoded == Decoded(src)
           IN  \A f \in ParsedFields : p[f] = decoded[f]
        /\ p.approvedVendorIDs = NilMap
        /\ ret.op = "VendorAllowed" => ret.val = VendorAllowed(p, ret.arg)
        /\ ret.op = "EveryPurposeAllowed" => ret.val = EveryPurposeAllowed(p, ret.arg)

\* A query for a vendor id that no entry of the record has and that is no
\* vendor, on a Range record with entries.
C15_Witness ==
    /\ Succeeded
    /\ ret.op = "VendorAllowed"
    /\ ret.arg = -1
    /\ p.IsRangeEncoding
    /\ Len(p.RangeEntries.elems) = 2
    /\ ret.val = p.DefaultConsent
    /\ p.RangeEntries.elems = <<EntryAt(src, 186), EntryAt(src, EntryOffset(src, 2))>>

\* The statements of Parse in the order they run, the two branches last.
StatementsLeft ==
    CASE pc = "Parse"             -> 14
      [] pc = "Version"           -> 13
      [] pc = "Created"           -> 12
      [] pc = "LastUpdated"       -> 11
      [] pc = "CMPID"             -> 10
      [] pc = "CMPVersion"        -> 9
      [] pc = "ConsentScreen"     -> 8
      [] pc = "ConsentLanguage"   -> 7
      [] pc = "VendorListVersion" -> 6
      [] pc = "PurposesAllowed"   -> 5
      [] pc = "MaxVendorID"       -> 4
      [] pc = "IsRangeEncoding"   -> 3
      [] pc = "DefaultConsent"    -> 2
      [] pc = "NumEntries"        -> 1
      [] OTHER                    -> 0

\* A bound on the steps Parse has left: the statements before the branch,
\* and in the branch the entry of the loop, an iteration for each count not
\* yet made and the return.  Before a count is read its field's greatest
\* value stands for it.
StepsLeft ==
    CASE pc = "returned"         -> 0
      [] pc = "ReadRangeEntries" -> 1 + (p.NumEntries - iter)
      [] pc = "RangeEntries"     -> 2 + p.NumEntries
      [] pc = "ReadBitField"     -> 1 + (p.MaxVendorID - iter)
      [] pc = "ConsentedVendors" -> 2 + p.MaxVendorID
      [] pc \in {"DefaultConsent", "NumEntries"} -> StatementsLeft + 2 + 4095
      [] pc = "IsRangeEncoding"  -> StatementsLeft + 2 + p.MaxVendorID + 4095
      [] OTHER                   -> StatementsLeft + 2 + 65535 + 4095

\* C16: every call of Parse returns, with a record or with an error: every
\* step of Parse lowers a bound on the steps left that is never negative,
\* and a state that has not returned is at a statement or at a loop test.
\* The range loop makes at most NumEntries <= 4095 iterations and holds one
\* entry per iteration, the vendor loop at most MaxVendorID <= 65535
\* iterations of one bit each; when the buffer is too short for the declared
\* count Parse has returned at the first read that failed, after exactly
\* the iterations the buffer has the bits for.
C16_Terminates ==
    /\ [][StepsLeft' < StepsLeft]_vars
    /\ [](/\ StepsLeft >= 0
          /\ StepsLeft = 0 <=> Returned
          /\ ~Returned => (StatementsLeft > 0 \/ pc \in {"RangeEntries", "ReadRangeEntries",
                                                         "ConsentedVendors", "ReadBitField"})
          /\ pc = "ReadRangeEntries" =>
                /\ iter \in 0..p.NumEntries
                /\ p.NumEntries <= 4095
                /\ Len(local.elems) = iter
                /\ pos = EntriesEnd(src, 186, iter)
          /\ pc = "ReadBitField" =>
                /\ iter \in 0..p.MaxVendorID
                /\ p.MaxVendorID <= 65535
                /\ pos = 173 + iter
          /\ (Returned /\ err = "panic" /\ Len(src) >= 186 /\ p.IsRangeEncoding) =>
                /\ iter < p.NumEntries
                /\ EntriesEnd(src, 186, iter) <= Len(src)
                /\ EntriesEnd(src, 186, iter + 1) > Len(src)
          /\ (Returned /\ err = "panic" /\ Len(src) >= 173 /\ ~p.IsRangeEncoding) =>
                /\ iter < p.MaxVendorID
                /\ iter = Len(src) - 173
          /\ (Returned /\ ~p.nil) =>
                LET decoded == Decoded(src)
                IN  \A f \in ParsedFields : p[f] = decoded[f])

\* A record that declares 4095 entries and holds two: Parse has returned
\* with the error of the third iteration's read.
C16_Witness ==
    /\ Returned
    /\ err = "panic"
    /\ p.IsRangeEncoding
    /\ p.NumEntries = 4095
    /\ iter = 2
    /\ local.elems = <<RangeEntry(1, 3), RangeEntry(2, 2)>>
    /\ p.RangeEntries.nil

C18_OrderIndependent ==
    (ret.op = "VendorAllowed" /\ Succeeded /\ p.IsRangeEncoding) =>
        /\ \A q \in Orders(p.RangeEntries.elems) :
              VendorAllowed([p EXCEPT !.RangeEntries.elems = q], ret.arg) = ret.val
        /\ normalizeParsedConsent(p) # {}
        /\ \A c \in normalizeParsedConsent(p) : VendorAllowed(c, ret.arg) = ret.val

\* Two overlapping entries out of order, <<3..4, 1..3>>, and a vendor that
\* only the second contains: the sort moves the entry that matches to the
\* front.
C18_Witness ==
    /\ ret.op = "VendorAllowed"
    /\ Succeeded
    /\ p.IsRangeEncoding
    /\ p.RangeEntries.elems = <<RangeEntry(3, 4), RangeEntry(1, 3)>>
    /\ ret.arg = 2
    /\ ret.val = ~p.DefaultConsent
    /\ normalizeParsedConsent(p) = {[p EXCEPT !.RangeEntries.elems = <<RangeEntry(1, 3), RangeEntry(3, 4)>>]}

\* The shortest buffer with the declared content of b: its first Demand(b)
\* bits, filled with clear bits up to a whole byte.
Canonical(b) ==
    LET d == Demand(b)
    IN  [k \in 1..(8 * ((d + 7) \div 8)) |-> IF k <= d THEN b[k] ELSE 0]

\* C19: the bits after the declared content (173 + MaxVendorID bits in
\* BitField mode, 186 + the widths of the entries in Range mode) have no
\* influence: on every buffer that holds its declared content Parse
\* succeeds, stops reading where the content ends, and returns the record
\* of the shortest buffer with that content, whatever follows the content
\* and however long the buffer is.
C19_TrailingBitsIgnored ==
    (Returned /\ Demand(src) <= Len(src)) =>
        LET shortest == Canonical(src)
            record   == Decoded(shortest)
        IN  /\ err = "nil"
            /\ pos = Demand(src)
            /\ Demand(shortest) = Demand(src)
            /\ SubSeq(shortest, 1, Demand(src)) = SubSeq(src, 1, Demand(src))
            /\ \A f \in ParsedFields : p[f] = record[f]

\* A BitField record of 22 bytes followed by bytes with set bits: the
\* vendors are those of the 3 declared bits.
C19_Witness ==
    /\ Succeeded
    /\ ~p.IsRangeEncoding
    /\ p.MaxVendorID = 3
    /\ Demand(src) = 176
    /\ Len(src) >= 192
    /\ src[177] = 1
    /\ src[180] = 1
    /\ src[194] = 1
    /\ p.ConsentedVendors.keys = {1, 3}
    /\ Canonical(src) # src

=============================================================================
